---- MODULE Spec2Model ----
(***************************************************************************)
(* Outline tree model and cursor commands of react-ingrid-p2.              *)
(*                                                                         *)
(* Two revisions of the program are present in the sources:                *)
(*   - src/src/App.js with src/src/model/node.js (seven commands).  App.js *)
(*     imports removeChildId and appendChildIdAndExpand from ./model/node, *)
(*     and node.js exports neither.  Either the import does not link       *)
(*     (SyntaxError, the program does not start), or the two bindings are  *)
(*     undefined and a call of either raises a TypeError.  Both outcomes   *)
(*     are behaviours of Spec.                   Specification: Spec       *)
(*   - src/unnamed/part_001, the earlier single-file revision (five        *)
(*     commands) in which indent and outdent edit childIds inline.         *)
(*                                               Specification: SpecInlined*)
(* Two more specifications build on these:                                 *)
(*   - SpecObserved: the commands of part_001 run assignment by            *)
(*     assignment, with the reactions (autorun, renderer) run at the end   *)
(*     of each action(...) batch;                                          *)
(*   - SpecLoad: the program of App.js started from the cache, used, and   *)
(*     started again from what its autorun stored.                         *)
(* Node ids are strings; JavaScript arrays are modelled as sequences and   *)
(* array indices are kept 0-based as in the code.                          *)
(***************************************************************************)
EXTENDS Integers, Sequences, FiniteSets, TLC

VARIABLES byId, currentId, error, lastCmd, cache, pending

vars == <<byId, currentId, error, lastCmd, cache, pending>>

\* Bound: the number of nodes addNewLine may create.
MaxNodes == 3

\* Titles faker.name.lastName() may return.
LastNames == {"Kuhn", "Rau"}

\* JavaScript null / undefined where an id is expected (falsy).
Null == "null"

\* if (x), x || y and x ? a : b test truthiness: null, undefined and the empty
\* string are falsy, every other string is truthy.
truthy(x) == x \notin {Null, ""}

\* Result of a helper that raised instead of returning.
Throw == "throw"

NoError == "none"

rootNodeId == "id_root"

\* Variant of nanoid that returns the same id every time.
nanoid_Repeating(n) == "id_1"

\* nanoid() is modelled as a fresh id: the n-th created node gets id_n.
nanoid(n) == "id_" \o ToString(n)

createRootNode ==
  [id |-> rootNodeId, childIds |-> <<>>, title |-> "Root", collapsed |-> FALSE]

createNewNode(newId, lastName) ==
  [id |-> newId, childIds |-> <<>>, title |-> lastName, collapsed |-> FALSE]

createInitialModel ==
  [byId |-> (rootNodeId :> createRootNode), currentId |-> rootNodeId]

\* The names src/src/model/node.js exports.
NodeExports ==
  {"rootNodeId", "createRootNode", "createNewNode", "checkNode",
   "checkNodeArray", "getNodeTitle", "isRootNode", "canExpand",
   "canCollapse", "appendNodeIdAfterSiblingId", "maybeNextChildId",
   "maybePrevChildId"}

\* The names src/src/App.js imports from ./model/node.
NodeImports ==
  {"appendChildIdAndExpand", "appendNodeIdAfterSiblingId", "canCollapse",
   "canExpand", "checkNode", "checkNodeArray", "createNewNode",
   "createRootNode", "getNodeTitle", "isRootNode", "maybeNextChildId",
   "maybePrevChildId", "removeChildId", "rootNodeId"}

\* An imported binding is callable only when the module exports the name.
isExported(name) == name \in NodeExports

\* What importing a name the module does not export does is up to the module
\* system that loads App.js.  Linked as a native ES module the import is a
\* SyntaxError: App.js is not evaluated, no model is made and no key is bound.
\* Compiled to CommonJS by the bundler of react-scripts the import succeeds
\* with the missing names bound to undefined, and the program starts.
importOutcomes ==
  IF NodeImports \subseteq NodeExports THEN {"bound"}
  ELSE {"boundUndefined", "SyntaxError"}

----------------------------------------------------------------------------
\* Array helpers (0-based indices, as in JavaScript).

Range(s) == {s[i] : i \in 1..Len(s)}

\* Array.prototype.findIndex(R.equals(x)): first index of x, or -1.
findIndex(s, x) ==
  IF \E i \in 1..Len(s) : s[i] = x
    THEN (CHOOSE i \in 1..Len(s) : s[i] = x /\ \A j \in 1..(i - 1) : s[j] # x) - 1
    ELSE -1

\* Array.prototype.splice(start, 0, x): insert x so that it gets index start.
spliceInsert(s, start, x) ==
  SubSeq(s, 1, start) \o <<x>> \o SubSeq(s, start + 1, Len(s))

\* Variant of without that removes nothing.
without_KeepAll(s, x) == s

\* R.without([x])(s): s with every occurrence of x removed.
without(s, x) == SelectSeq(s, LAMBDA y : y # x)

\* checkIndex: the array is non-empty and 0 <= idx < length.
checkIndex(idx, array) == Len(array) > 0 /\ idx >= 0 /\ idx < Len(array)

----------------------------------------------------------------------------
\* Validators and lookups.

\* ow.object.exactShape of checkModel: exactly the keys byId and currentId.
exactShape(m) == DOMAIN m = {"byId", "currentId"}

\* The value guards of checkModel: byId a non-empty object, currentId a
\* non-empty string.  The commands work on the two fields of the observable
\* model, whose key set no command changes; the key set is tested where the
\* model is loaded (loadModel).
checkModel(m) == DOMAIN m.byId # {} /\ m.currentId \notin {"", Null}

\* checkNode (nodePredicate): exactly the four fields of a node, id a
\* non-empty string and childIds an array of non-empty strings.  title is a
\* string and collapsed a boolean in every record built here.
checkNode(node) ==
  /\ DOMAIN node = {"id", "title", "collapsed", "childIds"}
  /\ node.id \notin {"", Null}
  /\ \A i \in 1..Len(node.childIds) : node.childIds[i] \notin {"", Null}

isRootNode(node) == node.id = rootNodeId

\* Variant of hasChildren that holds of every node.
hasChildren_Always(node) == TRUE

hasChildren(node) == Len(node.childIds) > 0

canExpand(node) == hasChildren(node) /\ node.collapsed

\* Variant of canCollapse that does not ask for children.
canCollapse_AnyNode(node) == ~node.collapsed

canCollapse(node) == hasChildren(node) /\ ~node.collapsed

\* getNodeById returns a node: id is a string, byId has the key and the
\* value passes checkNode.
hasNode(id, m) ==
  /\ id # Null
  /\ id \in DOMAIN m.byId
  /\ checkNode(m.byId[id])

\* getCurrentNode returns a node (does not raise).
hasCurrentNode(m) == checkModel(m) /\ hasNode(m.currentId, m)

\* Object.keys order of byId: insertion order, the root first.
keyAt(i) == IF i = 1 THEN rootNodeId ELSE nanoid(i - 1)

\* getIdToPidLookup: each child id mapped to the id field of the last node,
\* in key order, whose childIds holds it.
getIdToPidLookup(m) ==
  LET n == Cardinality(DOMAIN m.byId)
      holders(c) == {i \in 1..n : keyAt(i) \in DOMAIN m.byId
                                  /\ c \in Range(m.byId[keyAt(i)].childIds)}
      referenced == UNION {Range(m.byId[k].childIds) : k \in DOMAIN m.byId}
      lastHolder(c) == LET held == holders(c)
                       IN CHOOSE i \in held : \A j \in held : j <= i
  IN [c \in referenced |-> m.byId[keyAt(lastHolder(c))].id]

maybeParentIdOf(node, m) ==
  LET idToPid == getIdToPidLookup(m)
  IN IF node.id \in DOMAIN idToPid THEN idToPid[node.id] ELSE Null

\* getParentOfId: the parent's id, or Throw when getNodeById(pid) raises.
getParentOfId(nodeId, m) ==
  LET idToPid == getIdToPidLookup(m)
      pid == IF nodeId \in DOMAIN idToPid THEN idToPid[nodeId] ELSE Null
  IN IF hasNode(pid, m) THEN pid ELSE Throw

getParentOf(node, m) == getParentOfId(node.id, m)

----------------------------------------------------------------------------
\* Child-list helpers of model/node.js.

\* Variant of appendNodeIdAfterSiblingId that splices at the sibling's index.
appendNodeIdAfterSiblingId_Before(nodeId, siblingId, parent) ==
  LET nodeIdx == findIndex(parent.childIds, siblingId)
  IN IF ~checkIndex(nodeIdx, parent.childIds)
       THEN [threw |-> TRUE, childIds |-> parent.childIds]
       ELSE [threw |-> FALSE,
             childIds |-> spliceInsert(parent.childIds, nodeIdx, nodeId)]

appendNodeIdAfterSiblingId(nodeId, siblingId, parent) ==
  LET nodeIdx == findIndex(parent.childIds, siblingId)
  IN IF ~checkIndex(nodeIdx, parent.childIds)
       THEN [threw |-> TRUE, childIds |-> parent.childIds]
       ELSE [threw |-> FALSE,
             childIds |-> spliceInsert(parent.childIds, nodeIdx + 1, nodeId)]

maybeNextChildId(nodeId, parent) ==
  LET nodeIdx == findIndex(parent.childIds, nodeId)
  IN IF ~checkIndex(nodeIdx, parent.childIds) THEN Throw
     ELSE IF nodeIdx < Len(parent.childIds) - 1
       THEN parent.childIds[nodeIdx + 2]
       ELSE Null

\* Variant of maybePrevChildId whose bound test is off by one.
maybePrevChildId_OffByOne(nodeId, parent) ==
  LET nodeIdx == findIndex(parent.childIds, nodeId)
  IN IF ~checkIndex(nodeIdx, parent.childIds) THEN Throw
     ELSE IF nodeIdx > 1
       THEN parent.childIds[nodeIdx]
       ELSE Null

\* Variant of maybePrevChildId that reads childIds at nodeIdx itself.
maybePrevChildId_AtIndex(nodeId, parent) ==
  LET nodeIdx == findIndex(parent.childIds, nodeId)
  IN IF ~checkIndex(nodeIdx, parent.childIds) THEN Throw
     ELSE IF nodeIdx > 0
       THEN parent.childIds[nodeIdx + 1]
       ELSE Null

maybePrevChildId(nodeId, parent) ==
  LET nodeIdx == findIndex(parent.childIds, nodeId)
  IN IF ~checkIndex(nodeIdx, parent.childIds) THEN Throw
     ELSE IF nodeIdx > 0
       THEN parent.childIds[nodeIdx]
       ELSE Null

----------------------------------------------------------------------------
\* Outcome of a command: the model it leaves and the error it raised, if any.

Result(m, err) == [byId |-> m.byId, currentId |-> m.currentId, error |-> err]

Model == [byId |-> byId, currentId |-> currentId]

----------------------------------------------------------------------------
\* Add Line.

\* Variant of appendNewChild that does not register the new node in byId.
appendNewChild_NoRegister(node, m, newId, lastName) ==
  [byId |-> [m.byId EXCEPT ![m.currentId].childIds = Append(@, newId)],
   currentId |-> newId,
   error |-> NoError]

\* Variant of appendNewChild that also expands the node it appends to.
appendNewChild_AndExpand(node, m, newId, lastName) ==
  LET newNode == createNewNode(newId, lastName)
      pushed == [m.byId EXCEPT ![m.currentId].childIds = Append(@, newId),
                               ![m.currentId].collapsed = FALSE]
  IN [byId |-> (newId :> newNode) @@ pushed,
      currentId |-> newId,
      error |-> NoError]

\* node is the object getCurrentNode returned, the value of byId at currentId:
\* the push goes to that object, whatever its id field says.
appendNewChild(node, m, newId, lastName) ==
  LET newNode == createNewNode(newId, lastName)
      pushed == [m.byId EXCEPT ![m.currentId].childIds = Append(@, newId)]
  IN [byId |-> (newId :> newNode) @@ pushed,
      currentId |-> newId,
      error |-> NoError]

appendNewSiblingAfter(node, m, newId, lastName) ==
  LET newNode == createNewNode(newId, lastName)
      pid == getParentOf(node, m)
  IN IF pid = Throw THEN Result(m, "ArgumentError")
     ELSE LET spliced == appendNodeIdAfterSiblingId(newId, node.id, m.byId[pid])
          IN IF spliced.threw THEN Result(m, "ArgumentError")
             ELSE [byId |-> (newId :> newNode)
                       @@ [m.byId EXCEPT ![pid].childIds = spliced.childIds],
                   currentId |-> newId,
                   error |-> NoError]

addNewLine(m, newId, lastName) ==
  IF ~hasCurrentNode(m) THEN Result(m, "ArgumentError")
  ELSE LET current == m.byId[m.currentId]
       IN IF isRootNode(current)
            THEN appendNewChild(current, m, newId, lastName)
            ELSE appendNewSiblingAfter(current, m, newId, lastName)

----------------------------------------------------------------------------
\* Traversal.

\* Variant of maybeFirstChildIdOf that skips children the renderer hides.
maybeFirstChildIdOf_Visible(node, m) ==
  IF canCollapse(node) THEN Head(node.childIds) ELSE Null

maybeFirstChildIdOf(node, m) ==
  IF node.childIds = <<>> THEN Null ELSE Head(node.childIds)

\* Variant of maybeNextSibIdOf without the early return for the root.
maybeNextSibIdOf_NoRootGuard(node, m) ==
  LET pid == getParentOf(node, m)
  IN IF pid = Throw THEN Throw
     ELSE maybeNextChildId(node.id, m.byId[pid])

maybeNextSibIdOf(node, m) ==
  IF isRootNode(node) THEN Null
  ELSE LET pid == getParentOf(node, m)
       IN IF pid = Throw THEN Throw
          ELSE maybeNextChildId(node.id, m.byId[pid])

maybePrevSibIdOf(node, m) ==
  IF isRootNode(node) THEN Null
  ELSE LET pid == getParentOf(node, m)
       IN IF pid = Throw THEN Throw
          ELSE maybePrevChildId(node.id, m.byId[pid])

RECURSIVE maybeNextSibOfFirstAncestor(_, _)

\* Variant of maybeNextSibOfFirstAncestor that does not look at the ancestors.
maybeNextSibOfFirstAncestor_NoClimb(node, m) == Null

maybeNextSibOfFirstAncestor(node, m) ==
  LET maybeParentId == maybeParentIdOf(node, m)
  IN IF truthy(maybeParentId)
       THEN IF ~hasNode(maybeParentId, m) THEN Throw
            ELSE LET parent == m.byId[maybeParentId]
                     maybeId == maybeNextSibIdOf(parent, m)
                 IN IF truthy(maybeId)
                      THEN maybeId
                      ELSE maybeNextSibOfFirstAncestor(parent, m)
       ELSE Null

\* Variant of attemptNext that expands the node it leaves.
attemptNext_Expanding(m) ==
  IF ~hasCurrentNode(m) THEN Result(m, "ArgumentError")
  ELSE LET currentNode == m.byId[m.currentId]
           firstChild == maybeFirstChildIdOf(currentNode, m)
           nextSib == maybeNextSibIdOf(currentNode, m)
           maybeId == IF truthy(firstChild) THEN firstChild
                      ELSE IF truthy(nextSib) THEN nextSib
                      ELSE maybeNextSibOfFirstAncestor(currentNode, m)
       IN IF maybeId = Throw THEN Result(m, "ArgumentError")
          ELSE IF truthy(maybeId)
            THEN [byId |-> [m.byId EXCEPT ![m.currentId].collapsed = FALSE],
                  currentId |-> maybeId,
                  error |-> NoError]
            ELSE Result(m, NoError)

attemptNext(m) ==
  IF ~hasCurrentNode(m) THEN Result(m, "ArgumentError")
  ELSE LET currentNode == m.byId[m.currentId]
           firstChild == maybeFirstChildIdOf(currentNode, m)
           nextSib == maybeNextSibIdOf(currentNode, m)
           maybeId == IF truthy(firstChild) THEN firstChild
                      ELSE IF truthy(nextSib) THEN nextSib
                      ELSE maybeNextSibOfFirstAncestor(currentNode, m)
       IN IF maybeId = Throw THEN Result(m, "ArgumentError")
          ELSE IF truthy(maybeId)
            THEN [byId |-> m.byId, currentId |-> maybeId, error |-> NoError]
            ELSE Result(m, NoError)

RECURSIVE getLastDescendentIdOrSelf(_, _)

\* Variant of getLastDescendentIdOrSelf that does not descend.
getLastDescendentIdOrSelf_Self(nodeId, m) ==
  IF ~hasNode(nodeId, m) THEN Throw ELSE nodeId

getLastDescendentIdOrSelf(nodeId, m) ==
  IF ~hasNode(nodeId, m) THEN Throw
  ELSE LET childIds == m.byId[nodeId].childIds
       IN IF childIds # <<>>
            THEN getLastDescendentIdOrSelf(childIds[Len(childIds)], m)
            ELSE nodeId

attemptPrev(m) ==
  IF ~hasCurrentNode(m) THEN Result(m, "ArgumentError")
  ELSE LET currentNode == m.byId[m.currentId]
       IN IF isRootNode(currentNode) THEN Result(m, NoError)
          ELSE LET maybeId == maybePrevSibIdOf(currentNode, m)
               IN IF maybeId = Throw THEN Result(m, "ArgumentError")
                  ELSE IF truthy(maybeId)
                    THEN LET last == getLastDescendentIdOrSelf(maybeId, m)
                         IN IF last = Throw THEN Result(m, "ArgumentError")
                            ELSE [byId |-> m.byId, currentId |-> last,
                                  error |-> NoError]
                    ELSE LET parentId == maybeParentIdOf(currentNode, m)
                         IN IF truthy(parentId)
                              THEN [byId |-> m.byId, currentId |-> parentId,
                                    error |-> NoError]
                              ELSE Result(m, NoError)

----------------------------------------------------------------------------
\* Variant of insertAfterOldParent that pushes the node at the end.
insertAfterOldParent_Push(grandParent, oldParentId, nodeId) ==
  LET oldParentIndex == findIndex(grandParent.childIds, oldParentId)
  IN IF ~checkIndex(oldParentIndex, grandParent.childIds)
       THEN [threw |-> TRUE, childIds |-> grandParent.childIds]
       ELSE [threw |-> FALSE, childIds |-> Append(grandParent.childIds, nodeId)]

\* Variant of insertAfterOldParent that splices the node in before the parent.
insertAfterOldParent_Before(grandParent, oldParentId, nodeId) ==
  LET oldParentIndex == findIndex(grandParent.childIds, oldParentId)
  IN IF ~checkIndex(oldParentIndex, grandParent.childIds)
       THEN [threw |-> TRUE, childIds |-> grandParent.childIds]
       ELSE [threw |-> FALSE,
             childIds |-> spliceInsert(grandParent.childIds,
                                       oldParentIndex, nodeId)]

\* Variant of insertAfterOldParent that puts the node first.
insertAfterOldParent_First(grandParent, oldParentId, nodeId) ==
  LET oldParentIndex == findIndex(grandParent.childIds, oldParentId)
  IN IF ~checkIndex(oldParentIndex, grandParent.childIds)
       THEN [threw |-> TRUE, childIds |-> grandParent.childIds]
       ELSE [threw |-> FALSE,
             childIds |-> spliceInsert(grandParent.childIds, 0, nodeId)]

\* The insertion step of outdent: find the old parent among the grandparent's
\* childIds, check the index, splice the node in right after it.
insertAfterOldParent(grandParent, oldParentId, nodeId) ==
  LET oldParentIndex == findIndex(grandParent.childIds, oldParentId)
  IN IF ~checkIndex(oldParentIndex, grandParent.childIds)
       THEN [threw |-> TRUE, childIds |-> grandParent.childIds]
       ELSE [threw |-> FALSE,
             childIds |-> spliceInsert(grandParent.childIds,
                                       oldParentIndex + 1, nodeId)]

\* Indent and outdent, src/src/App.js.  Both call removeChildId, and indent
\* also appendChildIdAndExpand; what the two helpers would do when defined is
\* taken from the specification (section 4.4).

removeChildId(childId, parent) ==
  [parent EXCEPT !.childIds = without(@, childId)]

appendChildIdAndExpand(childId, parent) ==
  [parent EXCEPT !.childIds = Append(@, childId), !.collapsed = FALSE]

indent(m) ==
  IF ~hasCurrentNode(m) THEN Result(m, "ArgumentError")
  ELSE LET currentNode == m.byId[m.currentId]
       IN IF isRootNode(currentNode) THEN Result(m, NoError)
          ELSE LET maybePrevSibId == maybePrevSibIdOf(currentNode, m)
               IN IF maybePrevSibId = Throw THEN Result(m, "ArgumentError")
                  ELSE IF truthy(maybePrevSibId)
                    THEN LET oldParentId == getParentOf(currentNode, m)
                         IN IF oldParentId = Throw
                              THEN Result(m, "ArgumentError")
                            ELSE IF ~isExported("removeChildId")
                              THEN Result(m, "TypeError")
                            ELSE LET removed ==
                                       [m.byId EXCEPT ![oldParentId] =
                                          removeChildId(currentNode.id, @)]
                                     removedModel ==
                                       [byId |-> removed,
                                        currentId |-> m.currentId]
                                 IN IF ~hasNode(maybePrevSibId, m)
                                      THEN Result(removedModel, "ArgumentError")
                                    ELSE IF ~isExported("appendChildIdAndExpand")
                                      THEN Result(removedModel, "TypeError")
                                    ELSE [byId |->
                                            [removed EXCEPT ![maybePrevSibId] =
                                               appendChildIdAndExpand(
                                                 currentNode.id, @)],
                                          currentId |-> m.currentId,
                                          error |-> NoError]
                    ELSE Result(m, NoError)

outdent(m) ==
  IF ~hasCurrentNode(m) THEN Result(m, "ArgumentError")
  ELSE LET currentNode == m.byId[m.currentId]
       IN IF isRootNode(currentNode) THEN Result(m, NoError)
          ELSE LET oldParentId == getParentOf(currentNode, m)
               IN IF oldParentId = Throw THEN Result(m, "ArgumentError")
                  ELSE IF isRootNode(m.byId[oldParentId]) THEN Result(m, NoError)
                  ELSE LET grandParentId == getParentOf(m.byId[oldParentId], m)
                       IN IF grandParentId = Throw
                            THEN Result(m, "ArgumentError")
                          ELSE IF ~isExported("removeChildId")
                            THEN Result(m, "TypeError")
                          ELSE LET removed ==
                                     [m.byId EXCEPT ![oldParentId] =
                                        removeChildId(currentNode.id, @)]
                                   inserted ==
                                     insertAfterOldParent(removed[grandParentId],
                                                          m.byId[oldParentId].id,
                                                          currentNode.id)
                               IN IF inserted.threw
                                    THEN Result([byId |-> removed,
                                                 currentId |-> m.currentId],
                                                "ArgumentError")
                                    ELSE [byId |->
                                            [removed EXCEPT
                                               ![grandParentId].childIds =
                                                  inserted.childIds],
                                          currentId |-> m.currentId,
                                          error |-> NoError]

----------------------------------------------------------------------------
\* Indent and outdent, src/unnamed/part_001 (childIds edited inline).  Indent
\* takes the node out of its old parent before it looks the new parent up, so
\* a previous sibling id without a node leaves that first assignment in place
\* when getNodeById raises.

\* Variant of indentInlined that puts the node first among the children of
\* its new parent.
indentInlined_Unshift(m) ==
  IF ~hasCurrentNode(m) THEN Result(m, "ArgumentError")
  ELSE LET currentNode == m.byId[m.currentId]
       IN IF isRootNode(currentNode) THEN Result(m, NoError)
          ELSE LET maybePrevSibId == maybePrevSibIdOf(currentNode, m)
               IN IF maybePrevSibId = Throw THEN Result(m, "ArgumentError")
                  ELSE IF truthy(maybePrevSibId)
                    THEN LET oldParentId == getParentOf(currentNode, m)
                         IN IF oldParentId = Throw
                              THEN Result(m, "ArgumentError")
                              ELSE LET removed ==
                                         [m.byId EXCEPT ![oldParentId].childIds =
                                            without(@, currentNode.id)]
                                       pushed ==
                                         [removed EXCEPT
                                            ![maybePrevSibId].childIds =
                                               <<currentNode.id>> \o @,
                                            ![maybePrevSibId].collapsed = FALSE]
                                   IN IF ~hasNode(maybePrevSibId, m)
                                        THEN Result([byId |-> removed,
                                                     currentId |-> m.currentId],
                                                    "ArgumentError")
                                        ELSE [byId |-> pushed,
                                              currentId |-> m.currentId,
                                              error |-> NoError]
                    ELSE Result(m, NoError)

indentInlined(m) ==
  IF ~hasCurrentNode(m) THEN Result(m, "ArgumentError")
  ELSE LET currentNode == m.byId[m.currentId]
       IN IF isRootNode(currentNode) THEN Result(m, NoError)
          ELSE LET maybePrevSibId == maybePrevSibIdOf(currentNode, m)
               IN IF maybePrevSibId = Throw THEN Result(m, "ArgumentError")
                  ELSE IF truthy(maybePrevSibId)
                    THEN LET oldParentId == getParentOf(currentNode, m)
                         IN IF oldParentId = Throw
                              THEN Result(m, "ArgumentError")
                              ELSE LET removed ==
                                         [m.byId EXCEPT ![oldParentId].childIds =
                                            without(@, currentNode.id)]
                                       pushed ==
                                         [removed EXCEPT
                                            ![maybePrevSibId].childIds =
                                               Append(@, currentNode.id),
                                            ![maybePrevSibId].collapsed = FALSE]
                                   IN IF ~hasNode(maybePrevSibId, m)
                                        THEN Result([byId |-> removed,
                                                     currentId |-> m.currentId],
                                                    "ArgumentError")
                                        ELSE [byId |-> pushed,
                                              currentId |-> m.currentId,
                                              error |-> NoError]
                    ELSE Result(m, NoError)

outdentInlined(m) ==
  IF ~hasCurrentNode(m) THEN Result(m, "ArgumentError")
  ELSE LET currentNode == m.byId[m.currentId]
       IN IF isRootNode(currentNode) THEN Result(m, NoError)
          ELSE LET oldParentId == getParentOf(currentNode, m)
               IN IF oldParentId = Throw THEN Result(m, "ArgumentError")
                  ELSE IF isRootNode(m.byId[oldParentId]) THEN Result(m, NoError)
                  ELSE LET grandParentId == getParentOf(m.byId[oldParentId], m)
                       IN IF grandParentId = Throw
                            THEN Result(m, "ArgumentError")
                            ELSE LET removed ==
                                       [m.byId EXCEPT ![oldParentId].childIds =
                                          without(@, currentNode.id)]
                                     inserted ==
                                       insertAfterOldParent(
                                         removed[grandParentId],
                                         m.byId[oldParentId].id,
                                         currentNode.id)
                                 IN IF inserted.threw
                                      THEN Result([byId |-> removed,
                                                   currentId |-> m.currentId],
                                                  "ArgumentError")
                                      ELSE [byId |->
                                              [removed EXCEPT
                                                 ![grandParentId].childIds =
                                                    inserted.childIds],
                                            currentId |-> m.currentId,
                                            error |-> NoError]

----------------------------------------------------------------------------
\* Expand and collapse.

expand(m) ==
  IF ~hasCurrentNode(m) THEN Result(m, "ArgumentError")
  ELSE LET currentNode == m.byId[m.currentId]
       IN IF canExpand(currentNode)
            THEN [byId |-> [m.byId EXCEPT ![m.currentId].collapsed = FALSE],
                  currentId |-> m.currentId,
                  error |-> NoError]
            ELSE Result(m, NoError)

collapse(m) ==
  IF ~hasCurrentNode(m) THEN Result(m, "ArgumentError")
  ELSE LET currentNode == m.byId[m.currentId]
       IN IF canCollapse(currentNode)
            THEN [byId |-> [m.byId EXCEPT ![m.currentId].collapsed = TRUE],
                  currentId |-> m.currentId,
                  error |-> NoError]
            ELSE Result(m, NoError)

----------------------------------------------------------------------------
\* The two recursions of the traversal, counted: the number of calls made
\* from the given node, or 0 when more than fuel calls would be needed.

RECURSIVE callsOfNextSibOfFirstAncestor(_, _, _)
callsOfNextSibOfFirstAncestor(node, m, fuel) ==
  IF fuel = 0 THEN 0
  ELSE LET maybeParentId == maybeParentIdOf(node, m)
       IN IF ~truthy(maybeParentId) \/ ~hasNode(maybeParentId, m) THEN 1
          ELSE IF truthy(maybeNextSibIdOf(m.byId[maybeParentId], m)) THEN 1
          ELSE LET rest == callsOfNextSibOfFirstAncestor(
                             m.byId[maybeParentId], m, fuel - 1)
               IN IF rest = 0 THEN 0 ELSE rest + 1

RECURSIVE callsOfLastDescendentIdOrSelf(_, _, _)
callsOfLastDescendentIdOrSelf(nodeId, m, fuel) ==
  IF fuel = 0 THEN 0
  ELSE IF ~hasNode(nodeId, m) THEN 1
  ELSE LET childIds == m.byId[nodeId].childIds
       IN IF childIds = <<>> THEN 1
          ELSE LET rest == callsOfLastDescendentIdOrSelf(
                             childIds[Len(childIds)], m, fuel - 1)
               IN IF rest = 0 THEN 0 ELSE rest + 1

----------------------------------------------------------------------------
\* What the renderer shows below a node.

\* Variant of getVisibleNodeChildren that shows the children of every node,
\* as the renderer of src/unnamed/part_001 does.
getVisibleNodeChildren_All(node) == node.childIds

getVisibleNodeChildren(node) ==
  IF canCollapse(node) THEN node.childIds ELSE <<>>

\* The ids of the nodes the NodeTree component of a node renders: the node's
\* title line and the NodeTree of each visible child.
RECURSIVE NodeTree(_, _)
NodeTree(node, m) ==
  {node.id} \cup UNION {NodeTree(m.byId[cid], m) :
                          cid \in Range(getVisibleNodeChildren(node))}

\* What is on the screen.
RootTree(m) == NodeTree(m.byId[rootNodeId], m)

\* The NodeTree component of a node renders without raising: its title line
\* looks the cursor node up (getCurrentNode), getNodeChildren looks every
\* visible child up, and each visible child renders its own NodeTree.  depth
\* bounds the nesting: deeper than the number of nodes means a cycle, on
\* which the render does not end.
RECURSIVE rendersNodeTree(_, _, _)
rendersNodeTree(node, m, depth) ==
  /\ depth > 0
  /\ checkNode(node)
  /\ checkModel(m)
  /\ hasCurrentNode(m)
  /\ \A cid \in Range(getVisibleNodeChildren(node)) :
       /\ hasNode(cid, m)
       /\ rendersNodeTree(m.byId[cid], m, depth - 1)

\* RootTree renders without raising (getDisplayRootNode, then the NodeTree of
\* the root).
rendersRootTree(m) ==
  /\ checkModel(m)
  /\ hasNode(rootNodeId, m)
  /\ rendersNodeTree(m.byId[rootNodeId], m, Cardinality(DOMAIN m.byId))

\* The renderer of src/unnamed/part_001, which has no getVisibleNodeChildren:
\* NodeTree looks up and renders the children of every node, collapsed or not.
RECURSIVE rendersNodeTreeInlined(_, _, _)
rendersNodeTreeInlined(node, m, depth) ==
  /\ depth > 0
  /\ checkNode(node)
  /\ checkModel(m)
  /\ hasCurrentNode(m)
  /\ \A cid \in Range(node.childIds) :
       /\ hasNode(cid, m)
       /\ rendersNodeTreeInlined(m.byId[cid], m, depth - 1)

rendersRootTreeInlined(m) ==
  /\ checkModel(m)
  /\ hasNode(rootNodeId, m)
  /\ rendersNodeTreeInlined(m.byId[rootNodeId], m, Cardinality(DOMAIN m.byId))

----------------------------------------------------------------------------
\* Persistence (useAppModel).  ./cache-helpers is not among the sources: what
\* setCache stores and getCached returns is taken from the specification
\* (section 6): the snapshot {byId, currentId} of the model, or nothing.

\* The object R.defaultTo({}) yields when nothing is cached.
emptyObject == [k \in {} |-> Null]

setCache(m) == [byId |-> m.byId, currentId |-> m.currentId]

getCached(stored) == stored

\* What the first revision (src/unnamed/part_000) stored: no currentId, and a
\* root node without a collapsed field.
storedByFirstRevision ==
  [byId |-> (rootNodeId :>
               [id |-> rootNodeId, childIds |-> <<>>, title |-> "Root"])]

\* What the cache may hold when the program starts: nothing, or the snapshot
\* of the first revision.  Later starts find what the autorun stored.
StoredAtStart == {emptyObject, storedByFirstRevision}

\* The values of the model that are plain objects, which R.mergeDeepRight
\* merges key by key: byId in the model (depth 0) and the nodes in byId
\* (depth 1).  Ids, titles, flags and arrays are taken from the right.
isObjectAt(key, depth) == (depth = 0 /\ key = "byId") \/ depth = 1

RECURSIVE mergeDeepRight(_, _, _)

\* Variant that uses the cached object as it is, without the defaults.
mergeDeepRight_RightOnly(l, r, depth) == r

mergeDeepRight(l, r, depth) ==
  [key \in DOMAIN l \cup DOMAIN r |->
     IF key \in DOMAIN l /\ key \in DOMAIN r
       THEN IF isObjectAt(key, depth)
              THEN mergeDeepRight(l[key], r[key], depth + 1)
              ELSE r[key]
     ELSE IF key \in DOMAIN r THEN r[key]
     ELSE l[key]]

\* The object useAppModel makes observable.
initialModelFrom(stored) ==
  mergeDeepRight(createInitialModel, getCached(stored), 0)

\* The first render validates the model: checkModel with its exact shape,
\* then everything RootTree looks up.  A model that fails stays in the
\* observable as it was merged, and the autorun, which runs when useAppModel
\* sets it up, has stored that object already; a key the object lacks reads
\* as undefined.
loadModel(stored) ==
  LET model == initialModelFrom(stored)
      accepted == /\ exactShape(model)
                  /\ rendersRootTree(model)
  IN [byId |-> IF "byId" \in DOMAIN model THEN model.byId ELSE emptyObject,
      currentId |-> IF "currentId" \in DOMAIN model THEN model.currentId
                    ELSE Null,
      error |-> IF accepted THEN NoError ELSE "ArgumentError",
      stored |-> model]

----------------------------------------------------------------------------
\* The state machine: one action per command of useAppModel.effects.

Init ==
  /\ byId = createInitialModel.byId
  /\ currentId = createInitialModel.currentId
  /\ error = NoError
  /\ lastCmd = "init"
  /\ cache = setCache(createInitialModel)
  /\ pending = <<>>

\* The program of src/src/App.js after loading: started on the initial model,
\* or not started at all when the import does not link (no model: byId and
\* currentId are undefined, nothing is stored).
InitApp ==
  \E outcome \in importOutcomes :
    IF outcome = "SyntaxError"
      THEN /\ byId = emptyObject
           /\ currentId = Null
           /\ error = "SyntaxError"
           /\ lastCmd = "init"
           /\ cache = emptyObject
           /\ pending = <<>>
      ELSE Init

\* The module was evaluated.
moduleEvaluated == error # "SyntaxError"

\* The key listener is registered by an effect of the first render, so a
\* program that did not load, or whose first render raised, has no command
\* bound to any key.  An exception raised by a command leaves the listener;
\* a render that raises after a command unmounts App, and the cleanup of the
\* effect removes the listener (the model then stays as it is).
keysBound ==
  /\ ~(lastCmd \in {"init", "reload"} /\ error # NoError)
  /\ rendersRootTree(Model)

AddNewLine ==
  /\ keysBound
  /\ Cardinality(DOMAIN byId) <= MaxNodes
  /\ \E lastName \in LastNames :
       LET result == addNewLine(Model, nanoid(Cardinality(DOMAIN byId)),
                                lastName)
       IN /\ byId' = result.byId
          /\ currentId' = result.currentId
          /\ error' = result.error
          /\ lastCmd' = "addNewLine"
          /\ cache' = setCache(result)
          /\ pending' = pending

AttemptPrev ==
  LET result == attemptPrev(Model)
  IN /\ keysBound
     /\ byId' = result.byId
     /\ currentId' = result.currentId
     /\ error' = result.error
     /\ lastCmd' = "attemptPrev"
     /\ cache' = setCache(result)
     /\ pending' = pending

AttemptNext ==
  LET result == attemptNext(Model)
  IN /\ keysBound
     /\ byId' = result.byId
     /\ currentId' = result.currentId
     /\ error' = result.error
     /\ lastCmd' = "attemptNext"
     /\ cache' = setCache(result)
     /\ pending' = pending

Indent ==
  LET result == indent(Model)
  IN /\ keysBound
     /\ byId' = result.byId
     /\ currentId' = result.currentId
     /\ error' = result.error
     /\ lastCmd' = "indent"
     /\ cache' = setCache(result)
     /\ pending' = pending

Outdent ==
  LET result == outdent(Model)
  IN /\ keysBound
     /\ byId' = result.byId
     /\ currentId' = result.currentId
     /\ error' = result.error
     /\ lastCmd' = "outdent"
     /\ cache' = setCache(result)
     /\ pending' = pending

Expand ==
  LET result == expand(Model)
  IN /\ keysBound
     /\ byId' = result.byId
     /\ currentId' = result.currentId
     /\ error' = result.error
     /\ lastCmd' = "expand"
     /\ cache' = setCache(result)
     /\ pending' = pending

Collapse ==
  LET result == collapse(Model)
  IN /\ keysBound
     /\ byId' = result.byId
     /\ currentId' = result.currentId
     /\ error' = result.error
     /\ lastCmd' = "collapse"
     /\ cache' = setCache(result)
     /\ pending' = pending

\* The same for src/unnamed/part_001, with its renderer.
keysBoundInlined ==
  /\ ~(lastCmd \in {"init", "reload"} /\ error # NoError)
  /\ rendersRootTreeInlined(Model)

AddNewLineInlined ==
  /\ keysBoundInlined
  /\ Cardinality(DOMAIN byId) <= MaxNodes
  /\ \E lastName \in LastNames :
       LET result == addNewLine(Model, nanoid(Cardinality(DOMAIN byId)),
                                lastName)
       IN /\ byId' = result.byId
          /\ currentId' = result.currentId
          /\ error' = result.error
          /\ lastCmd' = "addNewLine"
          /\ cache' = setCache(result)
          /\ pending' = pending

AttemptPrevInlined ==
  LET result == attemptPrev(Model)
  IN /\ keysBoundInlined
     /\ byId' = result.byId
     /\ currentId' = result.currentId
     /\ error' = result.error
     /\ lastCmd' = "attemptPrev"
     /\ cache' = setCache(result)
     /\ pending' = pending

AttemptNextInlined ==
  LET result == attemptNext(Model)
  IN /\ keysBoundInlined
     /\ byId' = result.byId
     /\ currentId' = result.currentId
     /\ error' = result.error
     /\ lastCmd' = "attemptNext"
     /\ cache' = setCache(result)
     /\ pending' = pending

IndentInlined ==
  LET result == indentInlined(Model)
  IN /\ keysBoundInlined
     /\ byId' = result.byId
     /\ currentId' = result.currentId
     /\ error' = result.error
     /\ lastCmd' = "indent"
     /\ cache' = setCache(result)
     /\ pending' = pending

OutdentInlined ==
  LET result == outdentInlined(Model)
  IN /\ keysBoundInlined
     /\ byId' = result.byId
     /\ currentId' = result.currentId
     /\ error' = result.error
     /\ lastCmd' = "outdent"
     /\ cache' = setCache(result)
     /\ pending' = pending

Next ==
  \/ AddNewLine
  \/ AttemptPrev
  \/ AttemptNext
  \/ Indent
  \/ Outdent
  \/ Expand
  \/ Collapse

Spec == InitApp /\ [][Next]_vars

NextInlined ==
  \/ AddNewLineInlined
  \/ AttemptPrevInlined
  \/ AttemptNextInlined
  \/ IndentInlined
  \/ OutdentInlined

SpecInlined == Init /\ [][NextInlined]_vars

----------------------------------------------------------------------------
\* The commands write by write.  Every effect is wrapped in mobx action(...),
\* so its assignments to the observable model form one batch; the reactions
\* (the autorun that calls setCache, the observer components) run when the
\* batch ends.  writesOf...(m) lists the models a command passes through, one
\* per assignment of its code and in the order of the code; the last one is
\* the model the command leaves.

writesOfAppendNewChild(node, m, newId, lastName) ==
  LET pushed == [m.byId EXCEPT ![m.currentId].childIds = Append(@, newId)]
      registered == (newId :> createNewNode(newId, lastName)) @@ pushed
  IN << [byId |-> pushed, currentId |-> m.currentId],
        [byId |-> registered, currentId |-> m.currentId],
        [byId |-> registered, currentId |-> newId] >>

writesOfAppendNewSiblingAfter(node, m, newId, lastName) ==
  LET pid == getParentOf(node, m)
  IN IF pid = Throw THEN <<>>
     ELSE LET spliced == appendNodeIdAfterSiblingId(newId, node.id, m.byId[pid])
              inserted == [m.byId EXCEPT ![pid].childIds = spliced.childIds]
              registered == (newId :> createNewNode(newId, lastName))
                              @@ inserted
          IN IF spliced.threw THEN <<>>
             ELSE << [byId |-> inserted, currentId |-> m.currentId],
                     [byId |-> registered, currentId |-> m.currentId],
                     [byId |-> registered, currentId |-> newId] >>

writesOfAddNewLine(m, newId, lastName) ==
  IF ~hasCurrentNode(m) THEN <<>>
  ELSE LET current == m.byId[m.currentId]
       IN IF isRootNode(current)
            THEN writesOfAppendNewChild(current, m, newId, lastName)
            ELSE writesOfAppendNewSiblingAfter(current, m, newId, lastName)

writesOfAttemptNext(m) ==
  LET result == attemptNext(m)
  IN IF result.currentId = m.currentId THEN <<>>
     ELSE << [byId |-> m.byId, currentId |-> result.currentId] >>

writesOfAttemptPrev(m) ==
  LET result == attemptPrev(m)
  IN IF result.currentId = m.currentId THEN <<>>
     ELSE << [byId |-> m.byId, currentId |-> result.currentId] >>

writesOfIndentInlined(m) ==
  IF ~hasCurrentNode(m) THEN <<>>
  ELSE LET currentNode == m.byId[m.currentId]
       IN IF isRootNode(currentNode) THEN <<>>
          ELSE LET newParentId == maybePrevSibIdOf(currentNode, m)
               IN IF newParentId = Throw \/ ~truthy(newParentId) THEN <<>>
                  ELSE LET oldParentId == getParentOf(currentNode, m)
                       IN IF oldParentId = Throw THEN <<>>
                          ELSE LET removed ==
                                     [m.byId EXCEPT ![oldParentId].childIds =
                                        without(@, currentNode.id)]
                                   pushed ==
                                     [removed EXCEPT ![newParentId].childIds =
                                        Append(@, currentNode.id)]
                                   expanded ==
                                     [pushed EXCEPT
                                        ![newParentId].collapsed = FALSE]
                               IN IF ~hasNode(newParentId, m)
                                    THEN << [byId |-> removed,
                                             currentId |-> m.currentId] >>
                                    ELSE << [byId |-> removed,
                                             currentId |-> m.currentId],
                                            [byId |-> pushed,
                                             currentId |-> m.currentId],
                                            [byId |-> expanded,
                                             currentId |-> m.currentId] >>

writesOfOutdentInlined(m) ==
  IF ~hasCurrentNode(m) THEN <<>>
  ELSE LET currentNode == m.byId[m.currentId]
       IN IF isRootNode(currentNode) THEN <<>>
          ELSE LET oldParentId == getParentOf(currentNode, m)
               IN IF oldParentId = Throw THEN <<>>
                  ELSE IF isRootNode(m.byId[oldParentId]) THEN <<>>
                  ELSE LET grandParentId == getParentOf(m.byId[oldParentId], m)
                       IN IF grandParentId = Throw THEN <<>>
                          ELSE LET removed ==
                                     [m.byId EXCEPT ![oldParentId].childIds =
                                        without(@, currentNode.id)]
                                   inserted ==
                                     insertAfterOldParent(
                                       removed[grandParentId],
                                       m.byId[oldParentId].id,
                                       currentNode.id)
                               IN IF inserted.threw
                                    THEN << [byId |-> removed,
                                             currentId |-> m.currentId] >>
                                    ELSE << [byId |-> removed,
                                             currentId |-> m.currentId],
                                            [byId |->
                                               [removed EXCEPT
                                                  ![grandParentId].childIds =
                                                     inserted.childIds],
                                             currentId |-> m.currentId] >>

\* Variant in which the effects are not wrapped in action(...): every single
\* assignment is its own batch and the reactions run after each of them.
reactionsDeferred_Unbatched(remaining) == FALSE

\* Inside an action the reactions wait while assignments of the batch remain.
reactionsDeferred(remaining) == remaining # <<>>

\* The assignments of one call of an effect, each with the exception that is
\* pending once it is done: a command that raises does so after its last
\* assignment, and action(...) ends the batch on the way out.
batch(writes, err) ==
  [i \in 1..Len(writes) |->
     [byId |-> writes[i].byId,
      currentId |-> writes[i].currentId,
      error |-> IF i = Len(writes) THEN err ELSE NoError]]

\* The exception seen when the batch opens: the one of a command that raises
\* before it has assigned anything.
raisedAtStart(writes, err) == IF writes = <<>> THEN err ELSE NoError

\* A key press calls the effect: the batch opens with the command's writes.
StartAddNewLine ==
  /\ keysBoundInlined
  /\ pending = <<>>
  /\ Cardinality(DOMAIN byId) <= MaxNodes
  /\ \E lastName \in LastNames :
       LET newId == nanoid(Cardinality(DOMAIN byId))
           writes == writesOfAddNewLine(Model, newId, lastName)
           err == addNewLine(Model, newId, lastName).error
       IN /\ pending' = batch(writes, err)
          /\ error' = raisedAtStart(writes, err)
  /\ lastCmd' = "addNewLine"
  /\ UNCHANGED <<byId, currentId, cache>>

StartAttemptPrev ==
  LET writes == writesOfAttemptPrev(Model)
      err == attemptPrev(Model).error
  IN /\ keysBoundInlined
     /\ pending = <<>>
     /\ pending' = batch(writes, err)
     /\ error' = raisedAtStart(writes, err)
     /\ lastCmd' = "attemptPrev"
     /\ UNCHANGED <<byId, currentId, cache>>

StartAttemptNext ==
  LET writes == writesOfAttemptNext(Model)
      err == attemptNext(Model).error
  IN /\ keysBoundInlined
     /\ pending = <<>>
     /\ pending' = batch(writes, err)
     /\ error' = raisedAtStart(writes, err)
     /\ lastCmd' = "attemptNext"
     /\ UNCHANGED <<byId, currentId, cache>>

StartIndentInlined ==
  LET writes == writesOfIndentInlined(Model)
      err == indentInlined(Model).error
  IN /\ keysBoundInlined
     /\ pending = <<>>
     /\ pending' = batch(writes, err)
     /\ error' = raisedAtStart(writes, err)
     /\ lastCmd' = "indent"
     /\ UNCHANGED <<byId, currentId, cache>>

StartOutdentInlined ==
  LET writes == writesOfOutdentInlined(Model)
      err == outdentInlined(Model).error
  IN /\ keysBoundInlined
     /\ pending = <<>>
     /\ pending' = batch(writes, err)
     /\ error' = raisedAtStart(writes, err)
     /\ lastCmd' = "outdent"
     /\ UNCHANGED <<byId, currentId, cache>>

\* One assignment of the running command; after the last one the batch ends,
\* the autorun stores the model and a pending exception reaches the caller.
Write ==
  /\ pending # <<>>
  /\ byId' = Head(pending).byId
  /\ currentId' = Head(pending).currentId
  /\ error' = Head(pending).error
  /\ pending' = Tail(pending)
  /\ cache' = IF reactionsDeferred(Tail(pending)) THEN cache
              ELSE setCache(Head(pending))
  /\ UNCHANGED lastCmd

NextObserved ==
  \/ StartAddNewLine
  \/ StartAttemptPrev
  \/ StartAttemptNext
  \/ StartIndentInlined
  \/ StartOutdentInlined
  \/ Write

SpecObserved == Init /\ [][NextObserved]_vars

----------------------------------------------------------------------------
\* Starting over from the cache: the program of src/src/App.js is started,
\* used, and started again with what its autorun stored.

InitLoad ==
  \E stored \in StoredAtStart, outcome \in importOutcomes :
    IF outcome = "SyntaxError"
      THEN /\ byId = emptyObject
           /\ currentId = Null
           /\ error = "SyntaxError"
           /\ lastCmd = "init"
           /\ cache = stored
           /\ pending = <<>>
      ELSE LET loaded == loadModel(stored)
           IN /\ byId = loaded.byId
              /\ currentId = loaded.currentId
              /\ error = loaded.error
              /\ lastCmd = "init"
              /\ cache = loaded.stored
              /\ pending = <<>>

\* The page is loaded again; a build whose import does not link fails the
\* same way every time.
Reload ==
  LET loaded == loadModel(cache)
  IN /\ moduleEvaluated
     /\ byId' = loaded.byId
     /\ currentId' = loaded.currentId
     /\ error' = loaded.error
     /\ lastCmd' = "reload"
     /\ cache' = loaded.stored
     /\ pending' = pending

NextLoad ==
  \/ Next
  \/ Reload

SpecLoad == InitLoad /\ [][NextLoad]_vars

----------------------------------------------------------------------------
\* Vocabulary of the properties, defined on byId directly and independently
\* of the lookups the commands use.

NodeIds == DOMAIN byId

ChildSet(b, id) == Range(b[id].childIds)

\* The nodes whose childIds hold id.
ParentsOf(b, id) == {p \in DOMAIN b : id \in ChildSet(b, p)}

\* How many times id occurs in the childIds of p.
Occurrences(b, p, id) ==
  Cardinality({i \in 1..Len(b[p].childIds) : b[p].childIds[i] = id})

RECURSIVE ReachFrom(_, _, _)
ReachFrom(b, S, k) ==
  IF k = 0 THEN S
  ELSE ReachFrom(b, S \cup UNION {ChildSet(b, x) \cap DOMAIN b : x \in S}, k - 1)

\* The proper descendants of id.
Descendants(b, id) ==
  ReachFrom(b, ChildSet(b, id) \cap DOMAIN b, Cardinality(DOMAIN b))

RECURSIVE PreOrderOf(_, _)
RECURSIVE PreOrderOfAll(_, _)
\* The pre-order listing of the subtree of id.
PreOrderOf(b, id) == <<id>> \o PreOrderOfAll(b, b[id].childIds)
PreOrderOfAll(b, ids) ==
  IF ids = <<>> THEN <<>>
  ELSE PreOrderOf(b, Head(ids)) \o PreOrderOfAll(b, Tail(ids))

PreOrder == PreOrderOf(byId, rootNodeId)

\* The depth of the tree below id (0 for a childless node).
RECURSIVE Height(_, _)
Height(b, id) ==
  IF b[id].childIds = <<>> THEN 0
  ELSE 1 + (CHOOSE h \in {Height(b, c) : c \in ChildSet(b, id)} :
              \A c \in ChildSet(b, id) : Height(b, c) <= h)

----------------------------------------------------------------------------
\* C1. Referential integrity and cursor validity: after every command of any
\* sequence of the seven commands from the initial model, every id in any
\* node's childIds is a key of byId, and currentId is a key of byId.  (A
\* program whose import did not link has no model and runs no command.)
C1_ReferentialIntegrity ==
  moduleEvaluated =>
    /\ \A k \in NodeIds : ChildSet(byId, k) \subseteq NodeIds
    /\ currentId \in NodeIds

\* A sibling was inserted between two existing children of the root.
C1_Witness ==
  /\ lastCmd = "addNewLine"
  /\ Len(byId[rootNodeId].childIds) >= 3
  /\ currentId = byId[rootNodeId].childIds[2]

\* C2. Tree well-formedness: the root occurs in no childIds, every non-root
\* node occurs exactly once in exactly one node's childIds, and no node is
\* its own descendant.
C2_TreeWellFormed ==
  /\ \A p \in NodeIds : rootNodeId \notin ChildSet(byId, p)
  /\ \A id \in NodeIds \ {rootNodeId} :
       /\ Cardinality(ParentsOf(byId, id)) = 1
       /\ \A p \in ParentsOf(byId, id) : Occurrences(byId, p, id) = 1
  /\ \A id \in NodeIds : id \notin Descendants(byId, id)

\* An outdent has just moved the cursor node out of a parent that keeps
\* another child.
C2_Witness ==
  /\ lastCmd = "outdent"
  /\ Height(byId, rootNodeId) >= 2
  /\ \E p \in ParentsOf(byId, currentId) :
       /\ maybePrevChildId(currentId, byId[p]) \in NodeIds
       /\ byId[maybePrevChildId(currentId, byId[p])].childIds # <<>>

\* C3. Traversal inverse law: with the cursor on a node N that is neither
\* the root nor the last node in pre-order, moveNext then movePrev leaves the
\* cursor on N; with N not the first node in pre-order, movePrev then
\* moveNext leaves the cursor on N.
C3_TraversalInverse ==
  LET N == currentId
      afterNext == attemptNext(Model)
      nextThenPrev == attemptPrev([byId |-> afterNext.byId,
                                   currentId |-> afterNext.currentId])
      afterPrev == attemptPrev(Model)
      prevThenNext == attemptNext([byId |-> afterPrev.byId,
                                   currentId |-> afterPrev.currentId])
  IN /\ (N # rootNodeId /\ N # PreOrder[Len(PreOrder)])
          => /\ afterNext.currentId # N
             /\ nextThenPrev.currentId = N
     /\ N # PreOrder[1]
          => /\ afterPrev.currentId # N
             /\ prevThenNext.currentId = N

\* The cursor was moved up onto the last descendant of a previous sibling
\* that has children, and it is neither first nor last in pre-order.
C3_Witness ==
  /\ lastCmd = "attemptPrev"
  /\ currentId # rootNodeId
  /\ currentId # PreOrder[Len(PreOrder)]
  /\ \E p \in ParentsOf(byId, currentId) : p # rootNodeId
  /\ attemptNext(Model).currentId \in ChildSet(byId, rootNodeId)

\* The proper ancestors of id.
Ancestors(b, id) == {a \in DOMAIN b : id \in Descendants(b, a)}

\* id is followed by another id in some parent's childIds.
HasNextSibling(b, id) ==
  \E p \in ParentsOf(b, id) : b[p].childIds[Len(b[p].childIds)] # id

\* id is preceded by another id in some parent's childIds.
HasPrevSibling(b, id) ==
  \E p \in ParentsOf(b, id) : b[p].childIds[1] # id

\* C4. Indent/outdent inverse law: when the cursor node has a previous
\* sibling, indent followed by outdent leaves it under its original parent at
\* its original index, and every other node's childIds as they were.
C4_IndentOutdentInverse ==
  LET cur == currentId
      indented == indentInlined(Model)
      outdented == outdentInlined([byId |-> indented.byId,
                                   currentId |-> indented.currentId])
  IN HasPrevSibling(byId, cur)
       => /\ indented.byId # byId
          /\ outdented.currentId = cur
          /\ ParentsOf(outdented.byId, cur) = ParentsOf(byId, cur)
          /\ \A p \in ParentsOf(byId, cur) :
               findIndex(outdented.byId[p].childIds, cur)
                 = findIndex(byId[p].childIds, cur)
          /\ \A k \in NodeIds \ {cur} :
               outdented.byId[k].childIds = byId[k].childIds

\* An outdent has put the cursor node between a previous and a next sibling.
C4_Witness ==
  /\ lastCmd = "outdent"
  /\ HasPrevSibling(byId, currentId)
  /\ HasNextSibling(byId, currentId)
  /\ indentInlined(Model).byId # byId

\* C5. Collapse gating: expand changes the model only when the cursor node
\* has a child and is collapsed, and then only sets that node's collapsed to
\* false; collapse changes it only when the cursor node has a child and is not
\* collapsed, and then only sets that node's collapsed to true.
C5_CollapseGating ==
  [][/\ lastCmd' = "expand" =>
          /\ currentId' = currentId
          /\ IF Len(byId[currentId].childIds) >= 1 /\ byId[currentId].collapsed
               THEN /\ byId' = [byId EXCEPT ![currentId].collapsed = FALSE]
                    /\ byId'[currentId].collapsed # byId[currentId].collapsed
               ELSE byId' = byId
     /\ lastCmd' = "collapse" =>
          /\ currentId' = currentId
          /\ IF Len(byId[currentId].childIds) >= 1 /\ ~byId[currentId].collapsed
               THEN /\ byId' = [byId EXCEPT ![currentId].collapsed = TRUE]
                    /\ byId'[currentId].collapsed # byId[currentId].collapsed
               ELSE byId' = byId]_vars

\* A collapse has just taken effect on a node with children.
C5_Witness ==
  /\ lastCmd = "collapse"
  /\ byId[currentId].collapsed
  /\ Len(byId[currentId].childIds) >= 2

\* C6. Boundary no-ops: outdent with the cursor node's parent the root,
\* indent with the cursor node the first child of its parent, indent, outdent
\* or movePrev with the cursor on the root, and moveNext with the cursor on a
\* childless node such that neither it nor any ancestor has a next sibling,
\* each leave byId and currentId unchanged and raise no error.
C6_BoundaryNoOps ==
  [][LET cur == currentId
         NoOp == byId' = byId /\ currentId' = currentId /\ error' = NoError
     IN /\ (lastCmd' = "outdent" /\ rootNodeId \in ParentsOf(byId, cur)) => NoOp
        /\ (lastCmd' = "indent" /\ cur # rootNodeId
              /\ ~HasPrevSibling(byId, cur)) => NoOp
        /\ (lastCmd' \in {"indent", "outdent", "attemptPrev"}
              /\ cur = rootNodeId) => NoOp
        /\ (lastCmd' = "attemptNext" /\ byId[cur].childIds = <<>>
              /\ \A a \in {cur} \cup Ancestors(byId, cur) :
                   ~HasNextSibling(byId, a)) => NoOp]_vars

\* moveNext was applied with the cursor on the last of several children of
\* the root, and left it there.
C6_Witness ==
  /\ lastCmd = "attemptNext"
  /\ error = NoError
  /\ currentId # rootNodeId
  /\ byId[currentId].childIds = <<>>
  /\ Len(byId[rootNodeId].childIds) >= 2
  /\ \A a \in {currentId} \cup Ancestors(byId, currentId) :
       ~HasNextSibling(byId, a)
  /\ attemptPrev(Model).currentId # currentId

\* The nodes of the concrete scenario: the root, and the nodes the first and
\* the second addLine create.
R == rootNodeId
A == nanoid(1)
B == nanoid(2)

\* C7. Concrete scenario, construction part: from the initial model addLine
\* creates A as the root's only child with the cursor on A; a second addLine
\* makes R.childIds = [A, B] with the cursor on B; indent then yields
\* R.childIds = [A], A.childIds = [B], A.collapsed = false and the cursor
\* still on B; no step raises an error.
C7_ScenarioConstruction ==
  [][/\ (NodeIds = {R} /\ currentId = R /\ lastCmd' = "addNewLine")
          => /\ DOMAIN byId' = {R, A}
             /\ byId'[R].childIds = <<A>>
             /\ byId'[A].childIds = <<>>
             /\ currentId' = A
             /\ error' = NoError
     /\ (NodeIds = {R, A} /\ byId[R].childIds = <<A>> /\ currentId = A
           /\ lastCmd' = "addNewLine")
          => /\ DOMAIN byId' = {R, A, B}
             /\ byId'[R].childIds = <<A, B>>
             /\ currentId' = B
             /\ error' = NoError
     /\ (NodeIds = {R, A, B} /\ byId[R].childIds = <<A, B>>
           /\ byId[A].childIds = <<>> /\ byId[B].childIds = <<>>
           /\ currentId = B /\ lastCmd' = "indent")
          => /\ byId'[R].childIds = <<A>>
             /\ byId'[A].childIds = <<B>>
             /\ byId'[A].collapsed = FALSE
             /\ currentId' = B
             /\ error' = NoError]_vars

\* C8 as stated. Concrete scenario, outdent part: with R.childIds = [A],
\* A.childIds = [B] and the cursor on B, outdent is a no-op.
C8_OutdentIsNoOp ==
  [][(NodeIds = {R, A, B} /\ byId[R].childIds = <<A>>
        /\ byId[A].childIds = <<B>> /\ byId[B].childIds = <<>>
        /\ currentId = B /\ lastCmd' = "outdent")
       => /\ byId'[R].childIds = byId[R].childIds
          /\ byId'[A].childIds = byId[A].childIds
          /\ currentId' = currentId]_vars

\* C8 as amended. With R.childIds = [A], A.childIds = [B] and the cursor on B,
\* outdent moves B out of A to become A's next sibling: R.childIds = [A, B],
\* A.childIds = [], the cursor still on B, and no error.
C8_OutdentRestores ==
  [][(NodeIds = {R, A, B} /\ byId[R].childIds = <<A>>
        /\ byId[A].childIds = <<B>> /\ byId[B].childIds = <<>>
        /\ currentId = B /\ lastCmd' = "outdent")
       => /\ byId'[R].childIds = <<A, B>>
          /\ byId'[A].childIds = <<>>
          /\ byId'[B].childIds = <<>>
          /\ currentId' = B
          /\ error' = NoError]_vars

\* The scenario's model, reached by the indent.
C8_ScenarioState ==
  /\ lastCmd = "indent"
  /\ NodeIds = {R, A, B}
  /\ byId[R].childIds = <<A>>
  /\ byId[A].childIds = <<B>>
  /\ currentId = B

\* The outdent of the scenario has been applied.
C8_Witness ==
  /\ lastCmd = "outdent"
  /\ NodeIds = {R, A, B}
  /\ byId[R].childIds = <<A, B>>
  /\ byId[A].childIds = <<>>
  /\ currentId = B
  /\ indentInlined(Model).byId[A].childIds = <<B>>

\* C9. Add Line placement: addLine creates exactly one node, under an id not
\* in byId before, with empty childIds and collapsed = false; with the cursor
\* on the root the new id becomes the last of the root's childIds, otherwise
\* it is inserted right after the cursor node's id in the childIds of the
\* cursor node's parent; currentId becomes the new id.
C9_AddLinePlacement ==
  [][lastCmd' = "addNewLine" =>
       LET created == DOMAIN byId' \ DOMAIN byId
       IN /\ DOMAIN byId \subseteq DOMAIN byId'
          /\ Cardinality(created) = 1
          /\ \A n \in created :
               /\ byId'[n].id = n
               /\ byId'[n].childIds = <<>>
               /\ byId'[n].collapsed = FALSE
               /\ currentId' = n
               /\ IF currentId = rootNodeId
                    THEN byId'[rootNodeId].childIds
                           = Append(byId[rootNodeId].childIds, n)
                    ELSE \E p \in ParentsOf(byId, currentId) :
                           LET old == byId[p].childIds
                               i == CHOOSE j \in 1..Len(old) : old[j] = currentId
                           IN byId'[p].childIds
                                = SubSeq(old, 1, i) \o <<n>>
                                    \o SubSeq(old, i + 1, Len(old))]_vars

\* A line was added after a node that is not a child of the root and has a
\* next sibling.
C9_Witness ==
  /\ lastCmd = "addNewLine"
  /\ rootNodeId \notin ParentsOf(byId, currentId)
  /\ currentId # rootNodeId
  /\ HasPrevSibling(byId, currentId)

\* C10. No user-reachable error: no command of any sequence of the seven
\* commands from the initial model raises an error.
C10_NoError == lastCmd # "init" => error = NoError

----------------------------------------------------------------------------
\* C11  Atomic observation.  What the observers of the model hold (the
\* snapshot the autorun stored) is the model as it was before the running
\* command or as it is after it: outside a batch it equals the model, and
\* while assignments of a batch remain it does not change.  So it never shows
\* a childIds id that is missing from byId, nor a non-root node that is in no
\* childIds.

SnapshotWhole(c) ==
  /\ c.currentId \in DOMAIN c.byId
  /\ \A id \in DOMAIN c.byId :
       /\ Range(c.byId[id].childIds) \subseteq DOMAIN c.byId
       /\ id # rootNodeId => Cardinality(ParentsOf(c.byId, id)) = 1

C11_AtomicObservation ==
  /\ [](pending = <<>> => cache = setCache(Model))
  /\ [][pending' # <<>> => cache' = cache]_vars
  /\ [](SnapshotWhole(cache))

\* A sibling is being added after a non-root cursor: its id is already in the
\* parent's childIds and not yet in byId, and the observers still hold the
\* model from before the command.
C11_Witness ==
  /\ pending # <<>>
  /\ lastCmd = "addNewLine"
  /\ currentId # rootNodeId
  /\ \E id \in NodeIds : ~(ChildSet(byId, id) \subseteq NodeIds)
  /\ cache # setCache(Model)
  /\ SnapshotWhole(cache)

----------------------------------------------------------------------------
\* C12  Load-time repair.  Whatever the cache holds (nothing, the snapshot of
\* the first revision, which has no currentId and an older node shape, or any
\* snapshot the autorun stored), merging it over the initial model gives a
\* valid model: it has the root node, currentId is a key of byId, and every
\* id in a childIds is a key of byId.

ValidModel(model) ==
  /\ {"byId", "currentId"} \subseteq DOMAIN model
  /\ rootNodeId \in DOMAIN model.byId
  /\ model.currentId \in DOMAIN model.byId
  /\ \A id \in DOMAIN model.byId :
       /\ "childIds" \in DOMAIN model.byId[id]
       /\ Range(model.byId[id].childIds) \subseteq DOMAIN model.byId

C12_LoadTimeRepair ==
  \A stored \in StoredAtStart \cup {cache} :
    ValidModel(initialModelFrom(stored))

\* The program was started again on a stored tree of three nodes with the
\* cursor off the root, and got that tree back; the snapshot of the first
\* revision loads as the initial model.
C12_Witness ==
  /\ lastCmd = "reload"
  /\ Cardinality(NodeIds) >= 3
  /\ currentId # rootNodeId
  /\ byId[rootNodeId].collapsed
  /\ Model = initialModelFrom(cache)
  /\ "currentId" \notin DOMAIN storedByFirstRevision
  /\ initialModelFrom(storedByFirstRevision) = createInitialModel
  /\ initialModelFrom(emptyObject) = createInitialModel

----------------------------------------------------------------------------
\* The parent, the place and the previous sibling of a non-root node, read off
\* childIds (used where the node has exactly one parent).
ParentOf(b, id) == CHOOSE p \in DOMAIN b : id \in ChildSet(b, p)

PlaceOf(b, id) ==
  CHOOSE i \in 1..Len(b[ParentOf(b, id)].childIds) :
    b[ParentOf(b, id)].childIds[i] = id

PrevSiblingOf(b, id) == b[ParentOf(b, id)].childIds[PlaceOf(b, id) - 1]

\* ids without id, the other elements in their order.
Removed(ids, id) ==
  LET Other(x) == x # id
  IN SelectSeq(ids, Other)

\* C13  Indent effect.  When the cursor node C is not the root and has a
\* previous sibling P, indent takes C out of its old parent's childIds (the
\* others keep their order), appends C as the last element of P.childIds and
\* sets P.collapsed to false, so that C is among P's visible children;
\* currentId, C itself and every other node stay as they were.
C13_IndentEffect ==
  [][LET C == currentId
         O == ParentOf(byId, C)
         P == PrevSiblingOf(byId, C)
     IN (lastCmd' = "indent" /\ C # rootNodeId /\ HasPrevSibling(byId, C))
          => /\ currentId' = C
             /\ DOMAIN byId' = DOMAIN byId
             /\ byId'[O] = [byId[O] EXCEPT
                              !.childIds = Removed(byId[O].childIds, C)]
             /\ byId'[P] = [byId[P] EXCEPT
                              !.childIds = Append(byId[P].childIds, C),
                              !.collapsed = FALSE]
             /\ C \in Range(getVisibleNodeChildren(byId'[P]))
             /\ \A k \in NodeIds \ {O, P} : byId'[k] = byId[k]]_vars

\* ids with id put right after the element after.
InsertedAfter(ids, after, id) ==
  LET i == CHOOSE j \in 1..Len(ids) : ids[j] = after
  IN SubSeq(ids, 1, i) \o <<id>> \o SubSeq(ids, i + 1, Len(ids))

\* The elements of the parent's childIds that follow id.
FollowingSiblings(b, id) ==
  {b[ParentOf(b, id)].childIds[i] :
     i \in (PlaceOf(b, id) + 1)..Len(b[ParentOf(b, id)].childIds)}

\* C14  Outdent effect.  When the cursor node C is not the root and its parent
\* P is not the root, outdent takes C out of P.childIds and puts it into the
\* grandparent's childIds right after P, so that C is P's next sibling; the
\* siblings that followed C stay under P; currentId, every collapsed flag and
\* every other node's childIds stay as they were.
C14_OutdentEffect ==
  [][LET C == currentId
         P == ParentOf(byId, C)
         G == ParentOf(byId, P)
     IN (lastCmd' = "outdent" /\ C # rootNodeId /\ P # rootNodeId)
          => /\ currentId' = C
             /\ DOMAIN byId' = DOMAIN byId
             /\ byId'[P] = [byId[P] EXCEPT
                              !.childIds = Removed(byId[P].childIds, C)]
             /\ byId'[G] = [byId[G] EXCEPT
                              !.childIds =
                                 InsertedAfter(byId[G].childIds, P, C)]
             /\ ParentOf(byId', C) = G
             /\ PrevSiblingOf(byId', C) = P
             /\ FollowingSiblings(byId, C) \subseteq ChildSet(byId', P)
             /\ \A k \in NodeIds : byId'[k].collapsed = byId[k].collapsed
             /\ \A k \in NodeIds \ {P, G} : byId'[k] = byId[k]]_vars

\* An outdent has made the cursor node the next sibling of a node that keeps
\* a child.
C14_Witness ==
  /\ lastCmd = "outdent"
  /\ error = NoError
  /\ currentId # rootNodeId
  /\ PlaceOf(byId, currentId) >= 2
  /\ byId[PrevSiblingOf(byId, currentId)].childIds # <<>>

----------------------------------------------------------------------------
\* The place of id in the pre-order listing of the whole tree.
PreOrderPlace(id) == CHOOSE i \in 1..Len(PreOrder) : PreOrder[i] = id

\* The model with exactly the nodes of S collapsed.
WithCollapsed(m, S) ==
  [byId |-> [k \in DOMAIN m.byId |->
               [m.byId[k] EXCEPT !.collapsed = (k \in S)]],
   currentId |-> m.currentId]

\* The sets of collapsed nodes the traversal is tried with: none, any single
\* node, all nodes.
CollapsedChoices == {{}, NodeIds} \cup {{k} : k \in NodeIds}

\* C15  moveNext is the pre-order successor on the full tree.  moveNext puts
\* the cursor on the node that follows the cursor node in the pre-order
\* listing of the whole tree and changes nothing else; it changes nothing at
\* all when the cursor node is last in the listing; and where it puts the
\* cursor is the same with no node, any one node or all nodes collapsed.
C15_MoveNextIsPreOrderSuccessor ==
  /\ [][lastCmd' = "attemptNext"
          => /\ byId' = byId
             /\ currentId' =
                  IF PreOrderPlace(currentId) < Len(PreOrder)
                    THEN PreOrder[PreOrderPlace(currentId) + 1]
                    ELSE currentId]_vars
  /\ [](\A S \in CollapsedChoices :
          attemptNext(WithCollapsed(Model, S)).currentId
            = attemptNext(Model).currentId)

\* moveNext has taken the cursor from the last node of a subtree up to the
\* next sibling of an ancestor.
C15_Witness ==
  /\ lastCmd = "attemptNext"
  /\ error = NoError
  /\ PreOrderPlace(currentId) > 1
  /\ LET before == PreOrder[PreOrderPlace(currentId) - 1]
     IN /\ before \notin ParentsOf(byId, currentId)
        /\ ParentsOf(byId, before) # ParentsOf(byId, currentId)
        /\ attemptNext([byId |-> byId, currentId |-> before]).currentId
             = currentId

\* C16  movePrev is the pre-order predecessor on the full tree.  With the
\* cursor on a non-root node, movePrev puts the cursor on the last
\* descendant-or-self of the previous sibling when there is one, else on the
\* parent; that node is the one before the cursor node in the pre-order
\* listing of the whole tree; nothing else changes, and where the cursor goes
\* is the same with no node, any one node or all nodes collapsed.
C16_MovePrevIsPreOrderPredecessor ==
  /\ [][(lastCmd' = "attemptPrev" /\ currentId # rootNodeId)
          => /\ byId' = byId
             /\ currentId' = PreOrder[PreOrderPlace(currentId) - 1]
             /\ currentId' =
                  IF HasPrevSibling(byId, currentId)
                    THEN LET below ==
                               PreOrderOf(byId, PrevSiblingOf(byId, currentId))
                         IN below[Len(below)]
                    ELSE ParentOf(byId, currentId)]_vars
  /\ [](\A S \in CollapsedChoices :
          attemptPrev(WithCollapsed(Model, S)).currentId
            = attemptPrev(Model).currentId)

\* movePrev has taken the cursor from a child of the root down to the last
\* descendant of its previous sibling.
C16_Witness ==
  /\ lastCmd = "attemptPrev"
  /\ error = NoError
  /\ currentId # rootNodeId
  /\ ParentOf(byId, currentId) # rootNodeId
  /\ byId[currentId].childIds = <<>>
  /\ PreOrderPlace(currentId) < Len(PreOrder)
  /\ LET after == PreOrder[PreOrderPlace(currentId) + 1]
     IN /\ ParentOf(byId, after) = rootNodeId
        /\ attemptPrev([byId |-> byId, currentId |-> after]).currentId
             = currentId

----------------------------------------------------------------------------
\* C17  Only expand and collapse write collapsed.  The collapsed flag of an
\* existing node differs between the state before and the state after a
\* command only when the command is expand or collapse; addLine, moveNext,
\* movePrev, indent and outdent leave every existing node's flag unchanged.
C17_OnlyExpandCollapseWrite ==
  [][lastCmd' \notin {"expand", "collapse"}
       => \A k \in NodeIds : byId'[k].collapsed = byId[k].collapsed]_vars

\* A line was added below the collapsed root, next to two others, and the
\* root is still collapsed.
C17_Witness ==
  /\ lastCmd = "addNewLine"
  /\ error = NoError
  /\ byId[rootNodeId].collapsed
  /\ Len(byId[rootNodeId].childIds) = 3
  /\ currentId \in ChildSet(byId, rootNodeId)

----------------------------------------------------------------------------
\* C18  Stable node population.  The key set of byId changes only on addLine,
\* which adds exactly one key that was not there, the id of the node stored
\* under it; no command removes a key, and no existing node's id or title
\* changes.
C18_StableNodePopulation ==
  [][/\ NodeIds \subseteq DOMAIN byId'
     /\ \A k \in NodeIds : /\ byId'[k].id = byId[k].id
                           /\ byId'[k].title = byId[k].title
     /\ lastCmd' # "addNewLine" => DOMAIN byId' = NodeIds
     /\ lastCmd' = "addNewLine"
          => /\ Cardinality(DOMAIN byId' \ NodeIds) = 1
             /\ \A k \in DOMAIN byId' \ NodeIds :
                  /\ byId'[k].id = k
                  /\ byId'[k].title \in LastNames]_vars

\* A third line was added while the root was collapsed, and two of the lines
\* have different titles.
C18_Witness ==
  /\ lastCmd = "addNewLine"
  /\ Cardinality(NodeIds) = 4
  /\ byId[rootNodeId].collapsed
  /\ byId[rootNodeId].title = "Root"
  /\ \E j, k \in NodeIds \ {rootNodeId} : byId[j].title # byId[k].title

\* C19  Cursor-only movement.  moveNext and movePrev change nothing but
\* currentId: byId, and with it every node's childIds, collapsed and title, is
\* the same before and after the command.
C19_CursorOnlyMovement ==
  [][lastCmd' \in {"attemptNext", "attemptPrev"}
       => /\ byId' = byId
          /\ \A k \in NodeIds : /\ byId'[k].childIds = byId[k].childIds
                                /\ byId'[k].collapsed = byId[k].collapsed
                                /\ byId'[k].title = byId[k].title]_vars

\* moveNext has taken the cursor from the collapsed root onto its first
\* child, and the root is still collapsed.
C19_Witness ==
  /\ lastCmd = "attemptNext"
  /\ byId[rootNodeId].collapsed
  /\ Len(byId[rootNodeId].childIds) >= 2
  /\ currentId = byId[rootNodeId].childIds[1]

\* C20  Termination.  In every reachable model the upward recursion of
\* maybeNextSibOfFirstAncestor, from any node, makes no more calls than there
\* are nodes, and when no ancestor has a next sibling it stops at the root,
\* one call per ancestor; the downward recursion of getLastDescendentIdOrSelf,
\* from any node, makes no more calls than there are nodes and stops at a
\* childless node; and each command leaves a model.
C20_Termination ==
  /\ \A id \in NodeIds :
       /\ callsOfNextSibOfFirstAncestor(byId[id], Model, Cardinality(NodeIds))
            \in 1..Cardinality(NodeIds)
       /\ callsOfLastDescendentIdOrSelf(id, Model, Cardinality(NodeIds))
            \in 1..Cardinality(NodeIds)
  /\ \A id \in NodeIds :
       /\ maybeNextSibOfFirstAncestor(byId[id], Model) = Null
            => callsOfNextSibOfFirstAncestor(byId[id], Model,
                                             Cardinality(NodeIds))
                 = Cardinality(Ancestors(byId, id)) + 1
       /\ byId[getLastDescendentIdOrSelf(id, Model)].childIds = <<>>
  /\ \A result \in {attemptNext(Model), attemptPrev(Model),
                     indentInlined(Model), outdentInlined(Model),
                     expand(Model), collapse(Model)} :
       result.currentId \in DOMAIN result.byId
  /\ \A lastName \in LastNames :
       LET result == addNewLine(Model, nanoid(Cardinality(NodeIds)), lastName)
       IN result.currentId \in DOMAIN result.byId

\* The tree is a chain three deep with the cursor at its end: moveNext
\* climbed through every ancestor up to the root and found no next node, and
\* from the root the descent passes every node.
C20_Witness ==
  /\ lastCmd = "attemptNext"
  /\ Height(byId, rootNodeId) = 3
  /\ byId[currentId].childIds = <<>>
  /\ Cardinality(Ancestors(byId, currentId)) = 3
  /\ callsOfNextSibOfFirstAncestor(byId[currentId], Model,
                                   Cardinality(NodeIds)) = 4
  /\ callsOfLastDescendentIdOrSelf(rootNodeId, Model,
                                   Cardinality(NodeIds)) = 4

----------------------------------------------------------------------------
\* The cursor node has a collapsed proper ancestor.
CursorHidden(b, id) == \E a \in Ancestors(b, id) : b[a].collapsed

\* C21  Cursor on a hidden node is reachable.  The cursor gets onto a node
\* that is not rendered in two ways: moveNext from a collapsed node that has
\* children goes to its first child, and addLine on the collapsed root puts
\* the cursor on the new child; in both the node the cursor lands on has a
\* collapsed proper ancestor and is not on the screen.  In every state of a
\* program that started, the cursor node has a collapsed proper ancestor
\* exactly when it is not rendered.  (That such a state is reached is
\* C21_Witness.)
C21_HiddenCursor ==
  /\ [][(\/ lastCmd' = "attemptNext" /\ canExpand(byId[currentId])
         \/ /\ lastCmd' = "addNewLine"
            /\ currentId = rootNodeId
            /\ byId[rootNodeId].collapsed)
          => /\ currentId' # currentId
             /\ currentId \in ParentsOf(byId', currentId')
             /\ byId'[currentId].collapsed
             /\ CursorHidden(byId', currentId')
             /\ currentId' \notin RootTree([byId |-> byId',
                                            currentId |-> currentId'])]_vars
  /\ [](moduleEvaluated =>
          (CursorHidden(byId, currentId) <=> currentId \notin RootTree(Model)))

\* moveNext has put the cursor on a child of the collapsed root: the cursor
\* node is not on the screen.
C21_Witness ==
  /\ lastCmd = "attemptNext"
  /\ error = NoError
  /\ byId[rootNodeId].collapsed
  /\ currentId \in ChildSet(byId, rootNodeId)
  /\ CursorHidden(byId, currentId)
  /\ currentId \notin RootTree(Model)
  /\ rootNodeId \in RootTree(Model)

----------------------------------------------------------------------------
\* C22  Indent preserves document order.  The pre-order listing of the node
\* ids from the root is the same before and after an indent; it is the same
\* before and after an outdent when the cursor node is the last child of its
\* parent.
C22_DocumentOrderPreserved ==
  [][/\ lastCmd' = "indent" => PreOrderOf(byId', rootNodeId) = PreOrder
     /\ (/\ lastCmd' = "outdent"
         /\ currentId # rootNodeId
         /\ PlaceOf(byId, currentId)
              = Len(byId[ParentOf(byId, currentId)].childIds))
          => PreOrderOf(byId', rootNodeId) = PreOrder]_vars

\* An indent has moved a node that has a child of its own under a previous
\* sibling: the tree is three deep, and the listing is what it was.
C22_Witness ==
  /\ lastCmd = "indent"
  /\ error = NoError
  /\ Height(byId, rootNodeId) = 3
  /\ byId[currentId].childIds # <<>>
  /\ ParentOf(byId, currentId) # rootNodeId
  /\ outdentInlined(Model).byId # byId
  /\ PreOrderOf(outdentInlined(Model).byId, rootNodeId) = PreOrder

----------------------------------------------------------------------------
\* The nodes the cursor is on when moveNext is repeated from the cursor of m
\* until it no longer moves the cursor (at most fuel times).
RECURSIVE VisitedByMoveNext(_, _)
VisitedByMoveNext(m, fuel) ==
  LET result == attemptNext(m)
  IN IF fuel = 0 \/ result.currentId = m.currentId THEN <<m.currentId>>
     ELSE <<m.currentId>>
            \o VisitedByMoveNext([byId |-> result.byId,
                                  currentId |-> result.currentId], fuel - 1)

\* C23  No orphans and full cursor coverage.  Every key of byId is reached
\* from the root through childIds; and with the cursor on the root, repeated
\* moveNext visits every node of byId exactly once and then no longer changes
\* currentId.
C23_NoOrphansFullCoverage ==
  LET visited == VisitedByMoveNext([byId |-> byId, currentId |-> rootNodeId],
                                   Cardinality(NodeIds))
      last == [byId |-> byId, currentId |-> visited[Len(visited)]]
  IN /\ NodeIds = {rootNodeId} \cup Descendants(byId, rootNodeId)
     /\ Len(visited) = Cardinality(NodeIds)
     /\ Range(visited) = NodeIds
     /\ attemptNext(last).currentId = last.currentId
     /\ attemptNext(last).byId = byId

\* The root has two children and the first of them has a child; repeated
\* moveNext has brought the cursor to the last node, climbing out of the
\* first child's subtree on the way.
C23_Witness ==
  /\ lastCmd = "attemptNext"
  /\ Cardinality(NodeIds) = 4
  /\ Len(byId[rootNodeId].childIds) = 2
  /\ byId[byId[rootNodeId].childIds[1]].childIds # <<>>
  /\ currentId = byId[rootNodeId].childIds[2]
  /\ currentId = PreOrder[Len(PreOrder)]
  /\ VisitedByMoveNext([byId |-> byId, currentId |-> rootNodeId], 4) = PreOrder

----------------------------------------------------------------------------
\* C24  Collapsed implies children.  In every state reached by the commands,
\* every node with collapsed = true has a non-empty childIds.
C24_CollapsedImpliesChildren ==
  \A k \in NodeIds : byId[k].collapsed => byId[k].childIds # <<>>

\* Collapse was pressed on a childless node below the collapsed root: the
\* node is not collapsed, and the collapsed root has its children.
C24_Witness ==
  /\ lastCmd = "collapse"
  /\ error = NoError
  /\ currentId # rootNodeId
  /\ byId[currentId].childIds = <<>>
  /\ ~byId[currentId].collapsed
  /\ byId[rootNodeId].collapsed
  /\ Len(byId[rootNodeId].childIds) >= 2

====
